---- MODULE Spec2Model ----
(***************************************************************************)
(* Model of parser-combinator/src/lib.rs: the OSC address parser           *)
(* (parse_address) and the OSC address pattern parser                      *)
(* (parse_address_pattern), built from nom combinators.                    *)
(*                                                                         *)
(* A &str is a sequence of one-character strings.  A nom IResult is a      *)
(* record [ok, rest, val, panic]: Ok((rest, val)) or Err(Err::Error(_));   *)
(* panic marks a call that unwinds instead of returning.  All combinators  *)
(* used are the `complete` ones, so Err::Error is the only error and `alt` *)
(* always falls through to its next branch on error.                       *)
(***************************************************************************)
EXTENDS Integers, Sequences, FiniteSets, TLC

VARIABLES input, pc, result

vars == <<input, pc, result>>

\* Longest enumerated input; raised to widen the exhaustive part of Inputs.
MaxLen == 4

----------------------------------------------------------------------------
(* Characters *)

Digit == {"0", "1", "2", "3", "4", "5", "6", "7", "8", "9"}

Lower ==
    {"a", "b", "c", "d", "e", "f", "g", "h", "i", "j", "k", "l", "m",
     "n", "o", "p", "q", "r", "s", "t", "u", "v", "w", "x", "y", "z"}

Upper ==
    {"A", "B", "C", "D", "E", "F", "G", "H", "I", "J", "K", "L", "M",
     "N", "O", "P", "Q", "R", "S", "T", "U", "V", "W", "X", "Y", "Z"}

\* AsChar::is_alphanum for char: ASCII letter or decimal digit.
is_alphanum(c) == c \in Lower \cup Upper \cup Digit

\* The argument with '?' left out: " \t\r\n#*,/[]{}".
AddressStop_without_questionmark ==
    {" ", "\t", "\r", "\n", "#", "*", ",", "/", "[", "]", "{", "}"}

\* The argument with '-' added: " \t\r\n#*,/?[]{}-".
AddressStop_with_dash ==
    {" ", "\t", "\r", "\n", "#", "*", ",", "/", "?", "[", "]", "{", "}", "-"}

\* The argument of is_not in address_part: " \t\r\n#*,/?[]{}".
AddressStop ==
    {" ", "\t", "\r", "\n", "#", "*", ",", "/", "?", "[", "]", "{", "}"}

\* The argument of is_not in parse_address_pattern: " \t\r\n/".
PatternStop == {" ", "\t", "\r", "\n", "/"}

----------------------------------------------------------------------------
(* nom combinators.  A combinator takes the result r of the parser that    *)
(* ran before it in a sequence and continues on r.rest; it fails when r    *)
(* failed.  r.val is the tuple of the outputs kept so far: char and tag    *)
(* are only used where their output is discarded and leave it alone, the   *)
(* others append their output.                                             *)

Ok(rest, val) == [ok |-> TRUE, rest |-> rest, val |-> val, panic |-> FALSE]

Err == [ok |-> FALSE, rest |-> <<>>, val |-> <<>>, panic |-> FALSE]

\* Option::expect on None, Result::unwrap on Err, usize underflow.
Panic == [ok |-> FALSE, rest |-> <<>>, val |-> <<>>, panic |-> TRUE]

\* A parser called on the string s: nothing consumed, nothing kept.
Start(s) == Ok(s, <<>>)

Drop(s, n) == SubSeq(s, n + 1, Len(s))

\* The first n characters of r.rest taken as one output.
Take(r, n) == Ok(Drop(r.rest, n), Append(r.val, SubSeq(r.rest, 1, n)))

\* char(c): the input starts with c.
char(c, r) ==
    IF r.ok /\ Len(r.rest) > 0 /\ r.rest[1] = c
    THEN Ok(Tail(r.rest), r.val)
    ELSE Err

\* tag(t): the input starts with the sequence t.
tag(t, r) ==
    IF r.ok /\ Len(r.rest) >= Len(t) /\ SubSeq(r.rest, 1, Len(t)) = t
    THEN Ok(Drop(r.rest, Len(t)), r.val)
    ELSE Err

\* Length of the longest prefix of s with no character in stop.
PrefixLen(stop, s) ==
    IF \E i \in 1..Len(s) : s[i] \in stop
    THEN (CHOOSE i \in 1..Len(s) :
              /\ s[i] \in stop
              /\ \A j \in 1..(i - 1) : s[j] \notin stop) - 1
    ELSE Len(s)

\* is_not(stop): the longest non-empty run of characters outside stop.
is_not(stop, r) ==
    IF r.ok /\ PrefixLen(stop, r.rest) > 0
    THEN Take(r, PrefixLen(stop, r.rest))
    ELSE Err

\* take_until(c): everything before the first c, which is required and
\* left unconsumed.
take_until(c, r) ==
    IF r.ok /\ PrefixLen({c}, r.rest) < Len(r.rest)
    THEN Take(r, PrefixLen({c}, r.rest))
    ELSE Err

\* all_consuming(p) applied to the result r of p: no input may be left.
all_consuming(r) ==
    IF r.ok /\ r.rest = <<>> THEN r ELSE Err

\* alt((p, q)) applied to the results of p and q on the same input.
alt(p, q) == IF p.ok THEN p ELSE q

\* The single output of a sequence as the value.
Output(r) == IF r.ok THEN Ok(r.rest, r.val[1]) ELSE Err

\* One round of the loop of many1 at input s with acc collected: r is the
\* result of the element parser at s.  The loop ends at the first error and
\* fails on an element that consumed nothing; otherwise it goes on after r.
ManyEnds(s, r) == ~r.ok \/ Len(r.rest) = Len(s)

ManyEnd(s, acc, r) == IF ~r.ok THEN Ok(s, acc) ELSE Err

----------------------------------------------------------------------------
(* Address parser *)

address_part(s) == Output(is_not(AddressStop, char("/", Start(s))))

RECURSIVE many_address_part(_, _)

many_address_part_loop(s, acc, r) ==
    IF ManyEnds(s, r) THEN ManyEnd(s, acc, r)
    ELSE many_address_part(r.rest, Append(acc, r.val))

\* many1(address_part) after its first element.
many_address_part(s, acc) == many_address_part_loop(s, acc, address_part(s))

many1_address_part_first(r) ==
    IF r.ok THEN many_address_part(r.rest, <<r.val>>) ELSE Err

many1_address_part(s) == many1_address_part_first(address_part(s))

\* Lines 25-36 with the method also taken as a container (no "- 1").
address_of_parts_take_all(r) ==
    IF ~r.ok THEN Err
    ELSE IF Len(r.val) = 0 THEN Panic
    ELSE Ok(r.rest,
            [containers |-> r.val,
             method     |-> r.val[Len(r.val)]])

\* Lines 25-36 with parts.first() in place of parts.last().
address_of_parts_first(r) ==
    IF ~r.ok THEN Err
    ELSE IF Len(r.val) = 0 THEN Panic
    ELSE Ok(r.rest,
            [containers |-> SubSeq(r.val, 1, Len(r.val) - 1),
             method     |-> r.val[1]])

\* Lines 23-36 on the result r of all_consuming(many1(address_part)): the
\* error is returned by `?`; parts.len() - 1 and expect panic on no parts.
address_of_parts(r) ==
    IF ~r.ok THEN Err
    ELSE IF Len(r.val) = 0 THEN Panic
    ELSE Ok(r.rest,
            [containers |-> SubSeq(r.val, 1, Len(r.val) - 1),
             method     |-> r.val[Len(r.val)]])

parse_address(path) ==
    address_of_parts(all_consuming(many1_address_part(path)))

----------------------------------------------------------------------------
(* AddressPattern and BracketExpression values *)

QuestionMark == [type |-> "QuestionMark"]

Wildcard == [type |-> "Wildcard"]

BracketExpression(expr) == [type |-> "BracketExpression", expr |-> expr]

InvertedBracketExpression(expr) ==
    [type |-> "InvertedBracketExpression", expr |-> expr]

Alt(a, b) == [type |-> "Alt", a |-> a, b |-> b]

Literal(text) == [type |-> "Literal", text |-> text]

Charset(chars) == [type |-> "Charset", chars |-> chars]

Range(from, to) == [type |-> "Range", from |-> from, to |-> to]

----------------------------------------------------------------------------
(* Bracket body parser *)

\* satisfy(|b| b.is_alphanum())
alnum_char(r) ==
    IF r.ok /\ Len(r.rest) > 0 /\ is_alphanum(r.rest[1])
    THEN Ok(Tail(r.rest), Append(r.val, r.rest[1]))
    ELSE Err

range_of_pair(r) ==
    IF r.ok THEN Ok(r.rest, Range(r.val[1], r.val[2])) ELSE Err

\* separated_pair(alnum_char, char('-'), alnum_char)
alnum_range(s) == range_of_pair(alnum_char(char("-", alnum_char(Start(s)))))

\* many1(anychar): every remaining character, at least one.
charset(s) ==
    IF Len(s) > 0 THEN Ok(<<>>, Charset(s)) ELSE Err

\* alt with its branches swapped: charset is tried first.
bracket_element_charset_first(s) == alt(charset(s), alnum_range(s))

\* alt((alnum_range, charset))
bracket_element(s) == alt(alnum_range(s), charset(s))

RECURSIVE many_bracket_element(_, _)

many_bracket_element_loop(s, acc, r) ==
    IF ManyEnds(s, r) THEN ManyEnd(s, acc, r)
    ELSE many_bracket_element(r.rest, Append(acc, r.val))

many_bracket_element(s, acc) ==
    many_bracket_element_loop(s, acc, bracket_element(s))

bracket_first(r) ==
    IF r.ok THEN many_bracket_element(r.rest, <<r.val>>) ELSE Err

bracket(s) == bracket_first(bracket_element(s))

----------------------------------------------------------------------------
(* Segment classification *)

\* Ok((input, pattern of expr)) where bracket returned expr; its error is
\* returned by `?` and its remainder is discarded.
bracket_pattern_of(type, input_, b) ==
    IF b.ok THEN Ok(input_, [type |-> type, expr |-> b.val]) ELSE Err

\* Lines 75-76 and 81-82 on the result r of delimited(open,
\* take_until("]"), char(']')).
bracket_of_body(type, r) ==
    IF r.ok THEN bracket_pattern_of(type, r.rest, bracket(r.val[1]))
    ELSE Err

inverted_bracket_expression(s) ==
    bracket_of_body("InvertedBracketExpression",
                    char("]", take_until("]", tag(<<"[", "!">>, Start(s)))))

bracket_expression(s) ==
    bracket_of_body("BracketExpression",
                    char("]", take_until("]", char("[", Start(s)))))

bracket_pattern(s) ==
    alt(inverted_bracket_expression(s), bracket_expression(s))

alt_of_pair(r) ==
    IF r.ok THEN Ok(r.rest, Alt(r.val[1], r.val[2])) ELSE Err

alternative(s) ==
    alt_of_pair(
        char("}", take_until("}", char(",", take_until(",",
            char("{", Start(s)))))))

pattern_of_char(pattern, r) ==
    IF r.ok THEN Ok(r.rest, pattern) ELSE Err

questionmark(s) == pattern_of_char(QuestionMark, char("?", Start(s)))

wildcard(s) == pattern_of_char(Wildcard, char("*", Start(s)))

\* literal stopping at a pattern character, with is_not("?*[]{}").
literal_is_not(s) ==
    IF PrefixLen({"?", "*", "[", "]", "{", "}"}, s) > 0
    THEN Ok(Drop(s, PrefixLen({"?", "*", "[", "]", "{", "}"}, s)),
            Literal(SubSeq(s, 1, PrefixLen({"?", "*", "[", "]", "{", "}"}, s))))
    ELSE Err

literal(s) == Ok(<<>>, Literal(s))

parse_pattern(s) ==
    alt(bracket_pattern(s),
        alt(alternative(s),
            alt(questionmark(s),
                alt(wildcard(s),
                    literal(s)))))

----------------------------------------------------------------------------
(* Pattern parser *)

\* preceded(char('/'), is_not(" \t\r\n/"))
pattern_part(s) == Output(is_not(PatternStop, char("/", Start(s))))

RECURSIVE many_pattern_part(_, _)

many_pattern_part_loop(s, acc, r) ==
    IF ManyEnds(s, r) THEN ManyEnd(s, acc, r)
    ELSE many_pattern_part(r.rest, Append(acc, r.val))

many_pattern_part(s, acc) == many_pattern_part_loop(s, acc, pattern_part(s))

many1_pattern_part_first(r) ==
    IF r.ok THEN many_pattern_part(r.rest, <<r.val>>) ELSE Err

many1_pattern_part(s) == many1_pattern_part_first(pattern_part(s))

\* collect over all results but the last, as for the containers.
collect_skip_last(results) ==
    IF \E i \in 1..(Len(results) - 1) : ~results[i].ok
    THEN Err
    ELSE Ok(<<>>, [i \in 1..(Len(results) - 1) |-> results[i].val])

\* collect into Result<Vec<_>, _>: the first error, or every pattern in
\* order (each part's remainder is dropped by the map).
collect(results) ==
    IF \E i \in 1..Len(results) : ~results[i].ok
    THEN Err
    ELSE Ok(<<>>, [i \in 1..Len(results) |-> results[i].val])

\* Lines 122-125: parse_pattern mapped over the parts, then collected.
patterns_of_parts(parts) ==
    collect([i \in 1..Len(parts) |-> parse_pattern(parts[i])])

\* patterns.unwrap(): a panic when a part's parse_pattern returned an Err.
unwrap(input_, patterns) ==
    IF patterns.ok THEN Ok(input_, patterns.val) ELSE Panic

\* Lines 121-126 on the result r of all_consuming(many1(...)).
patterns_of_segmentation(r) ==
    IF r.ok THEN unwrap(r.rest, patterns_of_parts(r.val)) ELSE Err

parse_address_pattern(pattern) ==
    patterns_of_segmentation(all_consuming(many1_pattern_part(pattern)))

----------------------------------------------------------------------------
(* Inputs: the strings of the crate's tests, and every string of at most   *)
(* MaxLen characters over Alphabet.                                        *)

\* "/oscillator/[0-9]/*/[!1234]/{frequency,phase}/x?"
TestPattern ==
    <<"/", "o", "s", "c", "i", "l", "l", "a", "t", "o", "r", "/", "[", "0",
      "-", "9", "]", "/", "*", "/", "[", "!", "1", "2", "3", "4", "]", "/",
      "{", "f", "r", "e", "q", "u", "e", "n", "c", "y", ",", "p", "h", "a",
      "s", "e", "}", "/", "x", "?">>

\* "/oscillator/4/voice/1/frequency"
TestAddress ==
    <<"/", "o", "s", "c", "i", "l", "l", "a", "t", "o", "r", "/", "4", "/",
      "v", "o", "i", "c", "e", "/", "1", "/", "f", "r", "e", "q", "u", "e",
      "n", "c", "y">>

\* "/frequency"
TestMethodOnly ==
    <<"/", "f", "r", "e", "q", "u", "e", "n", "c", "y">>

\* ""
TestEmpty ==
    <<>>

\* "/"
TestBareRoot ==
    <<"/">>

\* "//"
TestOnlySlashes ==
    <<"/", "/">>

\* "//container/method"
TestEmptyPart ==
    <<"/", "/", "c", "o", "n", "t", "a", "i", "n", "e", "r", "/", "m", "e",
      "t", "h", "o", "d">>

\* "/oscillators/[0-9]/frequency"
TestRangePattern ==
    <<"/", "o", "s", "c", "i", "l", "l", "a", "t", "o", "r", "s", "/", "[",
      "0", "-", "9", "]", "/", "f", "r", "e", "q", "u", "e", "n", "c", "y">>

\* "/oscillators/*/frequency"
TestWildcardPattern ==
    <<"/", "o", "s", "c", "i", "l", "l", "a", "t", "o", "r", "s", "/", "*",
      "/", "f", "r", "e", "q", "u", "e", "n", "c", "y">>

\* "/oscillators/1?/frequency"
TestQuestionMarkPattern ==
    <<"/", "o", "s", "c", "i", "l", "l", "a", "t", "o", "r", "s", "/", "1",
      "?", "/", "f", "r", "e", "q", "u", "e", "n", "c", "y">>

\* "/oscillators/[abc]/{frequency,phase}"
TestChoicePattern ==
    <<"/", "o", "s", "c", "i", "l", "l", "a", "t", "o", "r", "s", "/", "[",
      "a", "b", "c", "]", "/", "{", "f", "r", "e", "q", "u", "e", "n", "c",
      "y", ",", "p", "h", "a", "s", "e", "}">>

\* "/oscillators/3/{frequency,phase}"
TestAlternativePattern ==
    <<"/", "o", "s", "c", "i", "l", "l", "a", "t", "o", "r", "s", "/", "3",
      "/", "{", "f", "r", "e", "q", "u", "e", "n", "c", "y", ",", "p", "h",
      "a", "s", "e", "}">>

TestInputs ==
    {TestPattern,
     TestAddress,
     TestMethodOnly,
     TestEmpty,
     TestBareRoot,
     TestOnlySlashes,
     TestEmptyPart,
     TestRangePattern,
     TestWildcardPattern,
     TestQuestionMarkPattern,
     TestChoicePattern,
     TestAlternativePattern}

\* Class bodies: the two of TestPattern, and bodies with two ranges, a
\* range before a charset, reversed bounds and a '-' inside a charset.
BracketBodies ==
    {<<"0", "-", "9">>,
     <<"1", "2", "3", "4">>,
     <<"a", "-", "z", "0", "-", "9">>,
     <<"a", "-", "z", "0", "9">>,
     <<"9", "-", "0">>,
     <<"a", "b", "-", "d">>}

Alphabet ==
    {"/", "a", "1", "-", "!", "[", "]", "{", "}", ",", "?", "*", "#", " "}

Strings(n) == UNION {[1..k -> Alphabet] : k \in 0..n}

Inputs == TestInputs \cup BracketBodies \cup Strings(MaxLen)

----------------------------------------------------------------------------
(* The two entry points and the class body parser, each called once on an *)
(* input string.                                                           *)

\* Nothing returned yet.
NoResult == [ok |-> FALSE, rest |-> <<>>, val |-> <<>>, panic |-> FALSE]

Init ==
    /\ input \in Inputs
    /\ pc = "start"
    /\ result = NoResult

CallParseAddress ==
    /\ pc = "start"
    /\ pc' = "parse_address"
    /\ result' = parse_address(input)
    /\ UNCHANGED input

CallParseAddressPattern ==
    /\ pc = "start"
    /\ pc' = "parse_address_pattern"
    /\ result' = parse_address_pattern(input)
    /\ UNCHANGED input

CallBracket ==
    /\ pc = "start"
    /\ pc' = "bracket"
    /\ result' = bracket(input)
    /\ UNCHANGED input

Next == CallParseAddress \/ CallParseAddressPattern \/ CallBracket

Spec == Init /\ [][Next]_vars

----------------------------------------------------------------------------
(* Vocabulary of the properties: the '/'-delimited segments of a string,  *)
(* read off the positions of its slashes, and the inverse rejoining.       *)

SlashPositions(s) == {i \in 1..Len(s) : s[i] = "/"}

\* Position of the k-th slash of s.
KthSlash(s, k) ==
    CHOOSE i \in SlashPositions(s) :
        Cardinality({j \in SlashPositions(s) : j <= i}) = k

\* Position after the end of the segment opened by the slash at i.
SegmentEnd(s, i) ==
    IF \E j \in SlashPositions(s) : j > i
    THEN CHOOSE j \in SlashPositions(s) :
             j > i /\ \A m \in SlashPositions(s) : m > i => j <= m
    ELSE Len(s) + 1

\* The text after each slash of s, up to the next slash or the end.
SegmentsOf(s) ==
    [k \in 1..Cardinality(SlashPositions(s)) |->
        SubSeq(s, KthSlash(s, k) + 1, SegmentEnd(s, KthSlash(s, k)) - 1)]

\* Every segment prefixed with '/', concatenated.
RECURSIVE Join(_)
Join(segs) ==
    IF segs = <<>> THEN <<>> ELSE <<"/">> \o Head(segs) \o Join(Tail(segs))

\* The canonical string of an Address.
Canonical(address) == Join(Append(address.containers, address.method))

\* The reserved set as the specification lists it.
SpecReserved == {" ", "\t", "\r", "\n", "#", "*", ",", "/", "?", "[", "]"}

\* s is a non-empty sequence of '/'-prefixed non-empty segments, none with
\* a character of reserved.
WellFormed(s, reserved) ==
    /\ Len(s) > 0
    /\ s[1] = "/"
    /\ \A k \in 1..Len(SegmentsOf(s)) :
          /\ SegmentsOf(s)[k] # <<>>
          /\ \A i \in 1..Len(SegmentsOf(s)[k]) :
                SegmentsOf(s)[k][i] \notin reserved

AddressDone == pc = "parse_address"

PatternDone == pc = "parse_address_pattern"

BracketDone == pc = "bracket"

oscillator == <<"o", "s", "c", "i", "l", "l", "a", "t", "o", "r">>

voice == <<"v", "o", "i", "c", "e">>

frequency == <<"f", "r", "e", "q", "u", "e", "n", "c", "y">>

phase == <<"p", "h", "a", "s", "e">>

----------------------------------------------------------------------------
(* Properties *)

\* C1: whenever parse_address succeeds, the input is n >= 1 '/'-prefixed
\* segments, containers are the first n-1 segments in order, method is the
\* last one and the remainder is empty; the two addresses of
\* test_parse_address give the documented values.
C1_ContainersAndMethod ==
    /\ (AddressDone /\ result.ok) =>
          LET segs == SegmentsOf(input)
          IN  /\ Len(segs) >= 1
              /\ input = Join(segs)
              /\ result.val.containers = SubSeq(segs, 1, Len(segs) - 1)
              /\ result.val.method = segs[Len(segs)]
              /\ result.rest = <<>>
    /\ (AddressDone /\ input = TestAddress) =>
          /\ result.ok
          /\ result.val.containers = <<oscillator, <<"4">>, voice, <<"1">>>>
          /\ result.val.method = frequency
    /\ (AddressDone /\ input = TestMethodOnly) =>
          /\ result.ok
          /\ result.val.containers = <<>>
          /\ result.val.method = frequency

C1_Witness ==
    /\ AddressDone
    /\ input = TestAddress
    /\ result.ok
    /\ Len(result.val.containers) = 4

\* C2: parse_address fails on every input that is not a non-empty sequence
\* of '/'-prefixed non-empty segments free of reserved characters: on "",
\* "/", "//", "//container/method", and on any input with a segment holding
\* '*', '?', '[', ']', ',' or '#'.
C2_RejectsMalformed ==
    /\ (AddressDone /\ ~WellFormed(input, SpecReserved)) => ~result.ok
    /\ (AddressDone /\ input \in {TestEmpty, TestBareRoot, TestOnlySlashes,
                                  TestEmptyPart}) => ~result.ok
    /\ (AddressDone /\ \E i \in 1..Len(input) :
                          input[i] \in {"*", "?", "[", "]", ",", "#"})
          => ~result.ok

C2_Witness ==
    /\ AddressDone
    /\ input = TestEmptyPart
    /\ ~WellFormed(input, SpecReserved)
    /\ ~result.ok

\* C3 as stated: parse_address succeeds on every non-empty concatenation of
\* '/' and a non-empty segment of printable characters outside { space,
\* tab, CR, LF, '#', '*', ',', '/', '?', '[', ']' }, segments with '{' or
\* '}' included.
C3_AcceptsSpecReserved ==
    (AddressDone /\ WellFormed(input, SpecReserved)) => result.ok

\* C3 amended: parse_address succeeds on every non-empty concatenation of
\* '/' and a non-empty segment of printable characters outside { space,
\* tab, CR, LF, '#', '*', ',', '/', '?', '[', ']', '{', '}' }.
C3_AcceptsWellFormed ==
    (AddressDone /\ WellFormed(input, SpecReserved \cup {"{", "}"}))
        => result.ok

C3_Witness ==
    /\ AddressDone
    /\ input = <<"/", "!", "/", "-">>
    /\ WellFormed(input, SpecReserved \cup {"{", "}"})
    /\ result.ok

\* The value test_parse_address_pattern asserts for TestPattern.
TestPatternExpected ==
    <<Literal(oscillator),
      BracketExpression(<<Range("0", "9")>>),
      Wildcard,
      InvertedBracketExpression(<<Charset(<<"1", "2", "3", "4">>)>>),
      Alt(frequency, phase),
      Literal(<<"x">>),
      QuestionMark>>

\* C4: parse_address_pattern on
\* "/oscillator/[0-9]/*/[!1234]/{frequency,phase}/x?" succeeds with the
\* seven patterns of test_parse_address_pattern, and a segment of literal
\* text followed by '?' gives Literal(text) followed by QuestionMark.
C4_TestPatternValue ==
    /\ (PatternDone /\ input = TestPattern) =>
          result.ok /\ result.val = TestPatternExpected
    /\ (PatternDone /\ input = <<"/", "a", "?">>) =>
          result.ok /\ result.val = <<Literal(<<"a">>), QuestionMark>>

PatternTypes ==
    {"QuestionMark", "Wildcard", "BracketExpression",
     "InvertedBracketExpression", "Alt", "Literal"}

C6_RoundTrip ==
    (AddressDone /\ result.ok) =>
        /\ Canonical(result.val) = input
        /\ parse_address(Canonical(result.val)).ok
        /\ parse_address(Canonical(result.val)).val = result.val

C6_Witness ==
    /\ AddressDone
    /\ result.ok
    /\ input = <<"/", "a", "/", "1">>
    /\ Canonical(result.val) = <<"/", "a", "/", "1">>

\* A segment with a syntactically invalid bracket or alternation body: '['
\* or '[!' with no ']' after it, an empty class body, or '{' with no ','
\* or no '}'.
InvalidBody(seg) ==
    LET has(c) == \E i \in 1..Len(seg) : seg[i] = c
    IN  /\ Len(seg) > 0
        /\ \/ seg[1] = "[" /\ ~has("]")
           \/ Len(seg) >= 2 /\ SubSeq(seg, 1, 2) = <<"[", "]">>
           \/ Len(seg) >= 3 /\ SubSeq(seg, 1, 3) = <<"[", "!", "]">>
           \/ seg[1] = "{" /\ (~has(",") \/ ~has("}"))

\* C7: parse_address_pattern returns an error whenever a segment has a
\* syntactically invalid bracket or alternation body; such a segment is
\* never returned as a Literal or another variant.
C7_RejectsInvalidBody ==
    (PatternDone /\ \E k \in 1..Len(SegmentsOf(input)) :
                        InvalidBody(SegmentsOf(input)[k]))
        => ~result.ok

\* C8: classification never drops characters of the segment: QuestionMark
\* only for the segment "?", Wildcard only for "*", a bracket expression
\* only when the first ']' is the segment's last character, Alt only when
\* the first '}' after the comma is the segment's last character, and every
\* other segment is the Literal of the whole segment.
C8_NothingDropped ==
    (PatternDone /\ result.ok /\ Len(result.val) = Len(SegmentsOf(input))) =>
        \A i \in 1..Len(result.val) :
            LET seg   == SegmentsOf(input)[i]
                pat   == result.val[i]
                comma == PrefixLen({","}, seg) + 1
            IN  /\ pat.type = "QuestionMark" => seg = <<"?">>
                /\ pat.type = "Wildcard" => seg = <<"*">>
                /\ pat.type \in {"BracketExpression",
                                 "InvertedBracketExpression"}
                      => PrefixLen({"]"}, seg) + 1 = Len(seg)
                /\ pat.type = "Alt"
                      => comma + PrefixLen({"}"}, Drop(seg, comma)) + 1
                            = Len(seg)
                /\ pat.type = "Literal" => pat.text = seg

\* The text a BracketExpression element was read from.
SourceText(e) ==
    IF e.type = "Range" THEN <<e.from, "-", e.to>> ELSE e.chars

RECURSIVE ElementsText(_)
ElementsText(expr) ==
    IF expr = <<>> THEN <<>>
    ELSE SourceText(Head(expr)) \o ElementsText(Tail(expr))

\* s begins with 'x-y', both x and y alphanumeric.
StartsWithRange(s) ==
    /\ Len(s) >= 3
    /\ s[1] \in Lower \cup Upper \cup Digit
    /\ s[2] = "-"
    /\ s[3] \in Lower \cup Upper \cup Digit

\* C9: bracket fails on an empty body; on a non-empty body it returns a
\* non-empty sequence of Ranges followed by at most one Charset, an element
\* being a Range exactly when the text at its position begins with 'x-y'
\* (reversed bounds included), the Charset being last and holding all the
\* remaining characters, and the elements' text concatenated being the body.
C9_RangesThenCharset ==
    BracketDone =>
        /\ input = <<>> => ~result.ok
        /\ input # <<>> =>
              /\ result.ok
              /\ result.rest = <<>>
              /\ Len(result.val) >= 1
              /\ \A i \in 1..Len(result.val) :
                    /\ result.val[i].type \in {"Range", "Charset"}
                    /\ i < Len(result.val) => result.val[i].type = "Range"
                    /\ result.val[i].type = "Range"
                          <=> StartsWithRange(Drop(input, 3 * (i - 1)))
                    /\ result.val[i].type = "Charset"
                          => result.val[i].chars = Drop(input, 3 * (i - 1))
              /\ ElementsText(result.val) = input
        /\ input = <<"a", "b", "-", "d">> =>
              result.val = <<Charset(<<"a", "b", "-", "d">>)>>
        /\ input = <<"9", "-", "0">> => result.val = <<Range("9", "0")>>

C9_Witness ==
    /\ BracketDone
    /\ input = <<"a", "-", "z", "0", "9">>
    /\ result.ok
    /\ result.val = <<Range("a", "z"), Charset(<<"0", "9">>)>>

\* C10: neither entry point panics: parse_address_pattern returns an error
\* exactly when segmentation fails and Ok otherwise, parse_pattern
\* succeeding on every segment, and parse_address never reaches its expect
\* nor underflows parts.len() - 1.
C10_NoPanic ==
    /\ ~result.panic
    /\ PatternDone =>
          /\ result.ok <=> all_consuming(many1_pattern_part(input)).ok
          /\ result.ok =>
                \A k \in 1..Len(SegmentsOf(input)) :
                    parse_pattern(SegmentsOf(input)[k]).ok
    /\ (AddressDone /\ result.ok) => Len(SegmentsOf(input)) >= 1

C10_Witness ==
    /\ PatternDone
    /\ input = <<"/", "]", "{", ",">>
    /\ ~result.panic
    /\ result.ok
    /\ result.val = <<Literal(<<"]", "{", ",">>)>>

====
